---------------------------- MODULE Spec2Model ----------------------------
(***************************************************************************)
(* Model of the Jain Foam & Furnishing API (src/main.py):                  *)
(*   - POST /api/contact : request validation (ContactSubmission),         *)
(*     submit_contact and send_email_notification;                         *)
(*   - POST /api/chatbot : the ordered keyword responder chatbot.          *)
(***************************************************************************)
EXTENDS Integers, Sequences, FiniteSets, TLC

VARIABLES
    submission,  \* the request body of POST /api/contact, by field
    db,          \* database module: db is None / create_document raises / works
    environ,     \* os.environ as read by send_email_notification
    smtp,        \* the smtplib call that raises in this request, or "none"
                 \* (db, environ, smtp are "unread" until the handler
                 \* looks at them)
    req,         \* the request being handled: position, log of calls, result
    runs,        \* the same request handled once per database state
    text,        \* ChatRequest.message
    reply,       \* the reply of chatbot for text, once asked
    variant,     \* text with letter case / surrounding whitespace edited
    edits,       \* number of edits applied to variant
    foreign,     \* an edit changed the case of a letter outside ASCII
    replyVariant \* the reply of chatbot for variant, once asked

vars == <<submission, db, environ, smtp, req, runs,
          text, reply, variant, edits, foreign, replyVariant>>

contactVars == <<submission, db, environ, smtp, req, runs>>
chatVars == <<text, reply, variant, edits, foreign, replyVariant>>

----------------------------------------------------------------------------
(* ContactSubmission: the Field constraints of the request model.          *)

MinNameLen == 2
MinPhoneLen == 6
MaxPhoneLen == 20
MinMessageLen == 5
MaxMessageLen == 1000

\* Field lengths tried around each limit.
NameLens == {MinNameLen - 1, MinNameLen}
PhoneLens == {MinPhoneLen - 1, MinPhoneLen, MaxPhoneLen, MaxPhoneLen + 1}
MessageLens == {MinMessageLen - 1, MinMessageLen, MaxMessageLen, MaxMessageLen + 1}

\* email: the field is absent (None), a valid address, or not an address.
\* name_text, phone_text, message_text: what the characters of the field
\* are: "plain" text of one line; "linefeed" when a line feed or carriage
\* return stands inside the name (the name spans more than one line);
\* "surrogate" when the field holds a lone surrogate code point (U+D800),
\* which UTF-8 cannot encode.
Submissions ==
    [name_len : NameLens, name_text : {"plain", "linefeed", "surrogate"},
     phone_len : PhoneLens, phone_text : {"plain", "surrogate"},
     email : {"none", "valid", "invalid"},
     message_len : MessageLens, message_text : {"plain", "surrogate"}]

\* A str field of the body holds a lone surrogate.
HasSurrogate(s) ==
    "surrogate" \in {s.name_text, s.phone_text, s.message_text}

ContactSubmission_wrong(s) ==
    /\ s.name_len >= MinNameLen
    /\ s.phone_len >= MinPhoneLen /\ s.phone_len <= MaxPhoneLen
    /\ s.email # "invalid"
    /\ s.message_len > MinMessageLen - 2 /\ s.message_len <= MaxMessageLen

\* The Field constraints hold of the body.
ContactSubmission(s) ==
    /\ s.name_len >= MinNameLen
    /\ s.phone_len >= MinPhoneLen /\ s.phone_len <= MaxPhoneLen
    /\ s.email # "invalid"
    /\ s.message_len >= MinMessageLen /\ s.message_len <= MaxMessageLen

----------------------------------------------------------------------------
(* The environment of one request.                                         *)

Range(seq) == {seq[i] : i \in 1..Len(seq)}

DbStates == {"absent", "raises", "ok"}

\* Values of SMTP_USER, SMTP_TO and SMTP_FROM that the address parser of
\* email.headerregistry (Python 3.11) fails on; the values are written as
\* they are.
BrokenAddresses == {"<", ".:", " .,", "a@[ "}

\* os.getenv values: the variable is unset ("absent"), "" ("empty"), or set
\* to an ordinary value of its kind ("set": a host name, a port number, a
\* mail address of one line, a password); SMTP_PORT may be set to text that
\* is no integer ("malformed"); SMTP_USER, SMTP_TO and SMTP_FROM may be set
\* to text that spans several lines ("linefeed") or to one of
\* BrokenAddresses.
Environs ==
    [SMTP_HOST : {"absent", "empty", "set"},
     SMTP_PORT : {"absent", "empty", "set", "malformed"},
     SMTP_USER : {"absent", "empty", "set", "linefeed", "<"},
     SMTP_PASS : {"absent", "empty", "set"},
     SMTP_TO   : {"absent", "set", "linefeed"} \cup BrokenAddresses,
     SMTP_FROM : {"absent", "set", "linefeed"} \cup BrokenAddresses]

\* The environment before a handler has looked at it.
Unread ==
    [SMTP_HOST |-> "unread", SMTP_PORT |-> "unread", SMTP_USER |-> "unread",
     SMTP_PASS |-> "unread", SMTP_TO |-> "unread", SMTP_FROM |-> "unread"]

\* The calls made on the SMTP session, in order; "quit" is the QUIT sent
\* when the with-block is left.
SmtpSteps == <<"connect", "starttls", "login", "send_message", "quit">>
SmtpFailures == {"none"} \cup {SmtpSteps[i] : i \in 1..Len(SmtpSteps)}

AckMessage == "Thank you! Your enquiry has been received. We'll reach out shortly."

Response(sent) == [ok |-> TRUE, message |-> AckMessage, email_sent |-> sent]
NoResponse == [ok |-> FALSE, message |-> "", email_sent |-> FALSE]

\* A request before the boundary validated it.
NewRequest ==
    [pc |-> "validate", log |-> <<>>, stored |-> FALSE,
     smtpError |-> "none", error |-> "none", response |-> NoResponse]

----------------------------------------------------------------------------
(* The steps of POST /api/contact, as functions on the request record.     *)

\* The str fields (name, phone, message) as the installed pydantic takes
\* them: a strict one refuses text that is no valid Unicode string, a
\* lenient one keeps it.
StrAccepted(s, strict) == strict => ~HasSurrogate(s)

\* FastAPI validates the body before submit_contact is entered.
validate(r, s, strict) ==
    IF ContactSubmission(s) /\ StrAccepted(s, strict)
    THEN [r EXCEPT !.pc = "persist"]
    ELSE [r EXCEPT !.pc = "rejected", !.error = "422"]

create_document_wrong(r, d) ==
    IF d = "absent"
    THEN [r EXCEPT !.pc = "notify", !.log = Append(@, "db_absent")]
    ELSE IF d = "raises"
    THEN [r EXCEPT !.pc = "raised", !.error = "Exception",
                   !.log = Append(@, "create_document")]
    ELSE [r EXCEPT !.pc = "notify", !.log = Append(@, "create_document"),
                   !.stored = TRUE]

create_document_absent_fatal(r, d) ==
    IF d = "absent"
    THEN [r EXCEPT !.pc = "raised", !.error = "Exception",
                   !.log = Append(@, "db_absent")]
    ELSE [r EXCEPT !.pc = "notify", !.log = Append(@, "create_document"),
                   !.stored = (d = "ok")]

\* submit_contact, the try block: db None raises before create_document is
\* called; every Exception is swallowed and the handler goes on.
create_document(r, d) ==
    IF d = "absent"
    THEN [r EXCEPT !.pc = "notify", !.log = Append(@, "db_absent")]
    ELSE [r EXCEPT !.pc = "notify", !.log = Append(@, "create_document"),
                   !.stored = (d = "ok")]

\* Python truthiness of an os.getenv value: None and "" are falsy.
Truthy(v) == v \notin {"absent", "empty"}

\* int(os.getenv("SMTP_PORT", "587")) raises ValueError on "" and on text
\* that is no integer.
PortParses(env) == env.SMTP_PORT \in {"absent", "set"}

\* os.getenv("SMTP_FROM", smtp_user or "no-reply@jain-foam.local")
from_email(env) ==
    IF env.SMTP_FROM = "absent"
    THEN IF Truthy(env.SMTP_USER) THEN env.SMTP_USER ELSE "set"
    ELSE env.SMTP_FROM

\* os.getenv("SMTP_TO", "raiv5253@gmail.com")
to_email(env) == IF env.SMTP_TO = "absent" THEN "set" ELSE env.SMTP_TO

\* msg["Subject"] = f"New Enquiry from {submission.name}": the exception
\* the assignment raises, or "none".  EmailMessage refuses a header value
\* that spans more than one line and cannot encode a lone surrogate.
SubjectError(s) ==
    CASE s.name_text = "plain" -> "none"
      [] s.name_text = "linefeed" -> "ValueError"
      [] s.name_text = "surrogate" -> "UnicodeEncodeError"

\* msg["From"] = ..., msg["To"] = ...: the exception the assignment of an
\* address header raises, or "none".  The value is parsed as an address
\* list; the parser of Python 3.11 fails on the BrokenAddresses.
AddressError(v) ==
    CASE v \in {"set", "empty"} -> "none"
      [] v = "linefeed" -> "ValueError"
      [] v = "<" -> "IndexError"
      [] v = ".:" -> "AttributeError"
      [] v = " .," -> "TypeError"
      [] v = "a@[ " -> "UnboundLocalError"

\* msg.set_content(body) encodes the body, which holds name, phone, email
\* and message, as UTF-8 (UnicodeEncodeError on a lone surrogate).
BodyError(s) == IF HasSurrogate(s) THEN "UnicodeEncodeError" ELSE "none"

\* The first exception raised while the message is built (lines 89-101),
\* or "none".
MessageError(env, s) ==
    IF SubjectError(s) # "none" THEN SubjectError(s)
    ELSE IF AddressError(from_email(env)) # "none" THEN AddressError(from_email(env))
    ELSE IF AddressError(to_email(env)) # "none" THEN AddressError(to_email(env))
    ELSE BodyError(s)

returns(r, sent) == [r EXCEPT !.pc = "returned", !.response = Response(sent)]
raises(r, e) == [r EXCEPT !.pc = "raised", !.error = e]

\* send_email_notification up to the try block: read the configuration,
\* return False when host, user or password is missing, build the message.
send_email_notification(r, env, s) ==
    LET r1 == [r EXCEPT !.log = Append(@, "send_email_notification")] IN
    IF ~PortParses(env) THEN raises(r1, "ValueError")
    ELSE IF ~Truthy(env.SMTP_HOST) \/ ~Truthy(env.SMTP_USER) \/ ~Truthy(env.SMTP_PASS)
    THEN returns(r1, FALSE)
    ELSE IF MessageError(env, s) # "none" THEN raises(r1, MessageError(env, s))
    ELSE [r1 EXCEPT !.pc = "connect"]

NextStep(step) ==
    CASE step = "connect" -> "starttls"
      [] step = "starttls" -> "login"
      [] step = "login" -> "send_message"
      [] step = "send_message" -> "quit"

\* One call on the SMTP session inside the try block (r.pc names it); the
\* call raises when fail names it.  A call raising inside the with-block
\* leaves the block, which sends QUIT; the exception is caught and the
\* function returns False.  Leaving the block normally sends QUIT and the
\* function returns True unless that raised.
smtp_call_uncaught(r, fail) ==
    LET step == r.pc
        r1 == [r EXCEPT !.log = Append(@, step)] IN
    IF fail = step
    THEN IF step = "login"
         THEN returns([r1 EXCEPT !.smtpError = step,
                                 !.log = Append(@, "quit")], FALSE)
         ELSE raises([r1 EXCEPT !.smtpError = step], "OSError")
    ELSE IF step = "quit" THEN returns(r1, TRUE)
    ELSE [r1 EXCEPT !.pc = NextStep(step)]

smtp_call(r, fail) ==
    LET step == r.pc
        r1 == [r EXCEPT !.log = Append(@, step)] IN
    IF fail = step
    THEN returns([r1 EXCEPT !.smtpError = step,
                            !.log = IF step \in {"starttls", "login", "send_message"}
                                    THEN Append(@, "quit") ELSE @], FALSE)
    ELSE IF step = "quit" THEN returns(r1, TRUE)
    ELSE [r1 EXCEPT !.pc = NextStep(step)]

InSmtp(r) == r.pc \in {"connect", "starttls", "login", "send_message", "quit"}
Finished(r) == r.pc \in {"returned", "raised", "rejected"}

----------------------------------------------------------------------------
(* Spec: one request to POST /api/contact.                                 *)

ChatIdle ==
    /\ text = <<>> /\ variant = <<>> /\ edits = 0 /\ foreign = FALSE
    /\ reply = "" /\ replyVariant = ""

Init ==
    /\ submission \in Submissions
    /\ db = "unread"
    /\ environ = Unread
    /\ smtp = "unread"
    /\ req = NewRequest
    /\ runs = [d \in DbStates |-> NewRequest]
    /\ ChatIdle

\* The boundary refuses the body (422): the handler is not entered.
Reject ==
    /\ req.pc = "validate"
    /\ \E strict \in BOOLEAN :
          /\ validate(req, submission, strict).pc = "rejected"
          /\ req' = validate(req, submission, strict)
    /\ UNCHANGED <<submission, db, environ, smtp, runs, chatVars>>

\* The boundary accepts the body and submit_contact is entered, in some
\* state of the database module.
Enter ==
    /\ req.pc = "validate"
    /\ \E strict \in BOOLEAN :
          /\ validate(req, submission, strict).pc = "persist"
          /\ req' = validate(req, submission, strict)
    /\ db' \in DbStates
    /\ UNCHANGED <<submission, environ, smtp, runs, chatVars>>

Persist ==
    /\ req.pc = "persist"
    /\ req' = create_document(req, db)
    /\ UNCHANGED <<submission, db, environ, smtp, runs, chatVars>>

\* send_email_notification reads the environment, in some state of it.
Notify ==
    /\ req.pc = "notify"
    /\ environ' \in Environs
    /\ req' = send_email_notification(req, environ', submission)
    /\ UNCHANGED <<submission, db, smtp, runs, chatVars>>

\* One call on the SMTP session; the server's behaviour (which call fails,
\* if any) shows when the connection is opened.
SmtpCall ==
    /\ InSmtp(req)
    /\ smtp' \in (IF req.pc = "connect" THEN SmtpFailures ELSE {smtp})
    /\ req' = smtp_call(req, smtp')
    /\ UNCHANGED <<submission, db, environ, runs, chatVars>>

Next == Reject \/ Enter \/ Persist \/ Notify \/ SmtpCall

Spec == Init /\ [][Next]_vars

----------------------------------------------------------------------------
(* Claims about POST /api/contact, checked under Spec.                     *)

Called(r, call) == call \in Range(r.log)
Calls(r, call) == Len(SelectSeq(r.log, LAMBDA c : c = call))
ConfigMissing(env) ==
    \E v \in {env.SMTP_HOST, env.SMTP_USER, env.SMTP_PASS} : v \in {"absent", "empty"}

\* C1: a submission that passed validation always gets a response with
\* ok = true, and no exception leaves the handler, whatever the database
\* state, the SMTP configuration and the content of the fields.
C1_ValidatedAlwaysOk ==
    req.pc \notin {"validate", "rejected"} =>
        /\ req.pc # "raised"
        /\ req.error = "none"
        /\ (req.pc = "returned" => req.response.ok)

\* C2: with the configuration present, a failure of any call of the SMTP
\* session is caught inside send_email_notification: the handler returns
\* ok = true with email_sent = false and nothing propagates.
C2_SmtpFailureCaught ==
    req.smtpError # "none" =>
        /\ req.pc = "returned"
        /\ req.error = "none"
        /\ req.response.ok
        /\ req.response.email_sent = FALSE

C2_Witness ==
    /\ req.smtpError = "send_message"
    /\ Truthy(environ.SMTP_HOST) /\ Truthy(environ.SMTP_USER) /\ Truthy(environ.SMTP_PASS)
    /\ req.pc = "returned" /\ req.response = Response(FALSE)

\* C3: when SMTP host, user or password is missing or empty, the
\* notification is skipped: no SMTP connection is opened, nothing is raised
\* and the response carries email_sent = false.
C3_MissingConfigSkips ==
    (ConfigMissing(environ) /\ Called(req, "send_email_notification")) =>
        /\ req.pc = "returned"
        /\ req.error = "none"
        /\ ~Called(req, "connect")
        /\ req.response.email_sent = FALSE

\* C4: with host, user and password present, once send_message has
\* succeeded the response carries email_sent = true; and email_sent = true
\* is returned only after a send_message that succeeded.
C4_SentIffSendSucceeded ==
    LET sendSucceeded == Called(req, "send_message") /\ req.smtpError # "send_message"
    IN  /\ (Finished(req) /\ sendSucceeded) =>
               (req.pc = "returned" /\ req.response.email_sent)
        /\ (req.pc = "returned" /\ req.response.email_sent) => sendSucceeded

\* C5: every handling of a valid submission attempts the notification
\* exactly once, and only after the persistence step has finished, whether
\* the database was absent, the write raised or the write succeeded.
C5_NotifyOnceAfterPersist ==
    LET n == Calls(req, "send_email_notification")
    IN  /\ n <= 1
        /\ n = 1 => /\ Len(req.log) >= 2
                    /\ req.log[1] \in {"db_absent", "create_document"}
                    /\ req.log[2] = "send_email_notification"
        /\ req.pc \notin {"validate", "rejected", "persist", "notify"} => n = 1
        /\ req.pc \in {"validate", "rejected", "persist", "notify"} => n = 0

C5_Witness ==
    /\ db = "raises" /\ Called(req, "create_document") /\ ~req.stored
    /\ Calls(req, "send_email_notification") = 1
    /\ req.pc = "returned"

\* C10: a submission is handled only if name length >= 2, phone length is
\* 6..20, message length is 5..1000 and the email is absent or valid;
\* otherwise it is rejected and neither the database write nor the email is
\* attempted.  Message length 4 is rejected, length 5 is accepted.
C10_OnlyValidReachesHandler ==
    LET s == submission
        valid == /\ s.name_len >= 2
                 /\ s.phone_len >= 6 /\ s.phone_len <= 20
                 /\ s.message_len >= 5 /\ s.message_len <= 1000
                 /\ s.email \in {"none", "valid"}
    IN  /\ (req.pc # "validate" /\ ~valid) => req.pc = "rejected"
        /\ (req.pc # "validate" /\ valid /\ ~HasSurrogate(s)) =>
               req.pc # "rejected"
        /\ ~valid => (req.log = <<>> /\ ~req.stored)
        /\ req.pc = "rejected" =>
               (req.log = <<>> /\ ~req.stored /\ req.response = NoResponse)

C10_Witness ==
    /\ submission.message_len = 4
    /\ submission.name_len = 2 /\ submission.phone_len = 6
    /\ submission.email = "valid" /\ ~HasSurrogate(submission)
    /\ req.pc = "rejected" /\ req.log = <<>>

----------------------------------------------------------------------------
(* SpecPair: one validated submission handled once under each database     *)
(* state, with the same environment and the same SMTP behaviour.           *)

DbOrder == <<"absent", "raises", "ok">>

\* The next step of the handler for request r.
handle(r, s, d, env, fail) ==
    CASE r.pc = "persist" -> create_document(r, d)
      [] r.pc = "notify" -> send_email_notification(r, env, s)
      [] InSmtp(r) -> smtp_call(r, fail)

InitPair ==
    /\ submission \in {s \in Submissions : ContactSubmission(s)}
    /\ db = DbOrder[1]
    /\ environ = Unread
    /\ smtp = "unread"
    /\ req = NewRequest
    /\ runs = [d \in DbStates |-> validate(NewRequest, submission, FALSE)]
    /\ ChatIdle

\* One step of the run under the i-th database state.  The environment
\* and the behaviour of the SMTP server are fixed by the first run that
\* looks at them and are the same for the later runs.
RunUnder(i) ==
    LET r == runs[DbOrder[i]] IN
    /\ \A j \in 1..(i - 1) : Finished(runs[DbOrder[j]])
    /\ ~Finished(r)
    /\ environ' \in (IF r.pc = "notify" /\ environ = Unread
                     THEN Environs ELSE {environ})
    /\ smtp' \in (IF r.pc = "connect" /\ smtp = "unread"
                  THEN SmtpFailures ELSE {smtp})
    /\ runs' = [runs EXCEPT ![DbOrder[i]] =
                    handle(r, submission, DbOrder[i], environ', smtp')]
    /\ db' = DbOrder[i]
    /\ UNCHANGED <<submission, req, chatVars>>

NextPair == \E i \in 1..Len(DbOrder) : RunUnder(i)

SpecPair == InitPair /\ [][NextPair]_vars

\* C6: the response does not depend on the database: the runs with db
\* absent, create_document raising and create_document succeeding end the
\* same way with the same response; an absent db is handled like a failed
\* write, and create_document is not called when db is absent.
C6_ResponseIgnoresPersistence ==
    /\ \A d1, d2 \in DbStates :
          (Finished(runs[d1]) /\ Finished(runs[d2])) =>
              /\ runs[d1].response = runs[d2].response
              /\ runs[d1].pc = runs[d2].pc
              /\ runs[d1].error = runs[d2].error
    /\ ~Called(runs["absent"], "create_document")
    /\ (Finished(runs["absent"]) /\ Finished(runs["raises"])) =>
          /\ Tail(runs["absent"].log) = Tail(runs["raises"].log)
          /\ runs["absent"].stored = runs["raises"].stored

C6_Witness ==
    /\ \A d \in DbStates : runs[d].pc = "returned"
    /\ \A d \in DbStates : runs[d].response = Response(TRUE)
    /\ runs["ok"].stored /\ ~runs["raises"].stored /\ ~runs["absent"].stored
    /\ Called(runs["raises"], "create_document")

----------------------------------------------------------------------------
(* POST /api/chatbot.  A text is a sequence of characters.  A character  *)
(* is written as a one-character string when it is printable ASCII or one  *)
(* of \t \n \f \r, and by its code point, "U+0130", otherwise (the       *)
(* grave accent, which a TLA+ string cannot hold, is "U+0060").  The       *)
(* characters of the model are those of Chars; the operators on texts are  *)
(* defined for texts over Chars only.                                      *)

UpperCase == <<"A", "B", "C", "D", "E", "F", "G", "H", "I", "J", "K", "L", "M",
               "N", "O", "P", "Q", "R", "S", "T", "U", "V", "W", "X", "Y", "Z">>
LowerCase == <<"a", "b", "c", "d", "e", "f", "g", "h", "i", "j", "k", "l", "m",
               "n", "o", "p", "q", "r", "s", "t", "u", "v", "w", "x", "y", "z">>
Letters == 1..Len(UpperCase)

\* The characters str.strip() removes: those with str.isspace().
Whitespace ==
    { " ", "\t", "\n", "\r", "\f",
      "U+000B", "U+001C", "U+001D", "U+001E", "U+001F", "U+0085",
      "U+00A0", "U+1680", "U+2000", "U+2001", "U+2002", "U+2003",
      "U+2004", "U+2005", "U+2006", "U+2007", "U+2008", "U+2009",
      "U+200A", "U+2028", "U+2029", "U+202F", "U+205F", "U+3000" }

Digits == {"0", "1", "2", "3", "4", "5", "6", "7", "8", "9"}

Punctuation ==
    { "!", "\"", "#", "$", "%", "&", "'", "(", ")", "*", "+", ",", "-", ".",
      "/", ":", ";", "<", "=", ">", "?", "@", "[", "\\", "]", "^", "_", "U+0060",
      "{", "|", "}", "~" }

\* The upper-case letters outside ASCII among the characters of the model:
\* capital I with dot above, the Kelvin sign, capital E with acute, capital
\* A with diaeresis, capital alpha, capital sigma; with their str.lower(),
\* which need not be one character.
NonAsciiUpper == {"U+0130", "U+212A", "U+00C9", "U+00C4", "U+0391", "U+03A3"}
NonAsciiLower(c) ==
    CASE c = "U+0130" -> <<"i", "U+0307">>
      [] c = "U+212A" -> <<"k">>
      [] c = "U+00C9" -> <<"U+00E9">>
      [] c = "U+00C4" -> <<"U+00E4">>
      [] c = "U+0391" -> <<"U+03B1">>
      [] c = "U+03A3" -> <<"U+03C3">>

\* The lower-case letters outside ASCII among the characters of the model:
\* dotless i, long s, sharp s, e with acute, a with diaeresis, alpha,
\* sigma, final sigma.
NonAsciiLowerCase ==
    {"U+0131", "U+017F", "U+00DF", "U+00E9", "U+00E4", "U+03B1", "U+03C3", "U+03C2"}

\* The combining dot above, which the lower case of U+0130 ends with.
Marks == {"U+0307"}

\* The characters of the model.
Chars ==
    Range(UpperCase) \cup Range(LowerCase) \cup Digits \cup Punctuation
    \cup Whitespace \cup NonAsciiUpper \cup NonAsciiLowerCase \cup Marks

\* The characters of the model with the Unicode property Cased, and those
\* with the property Case_Ignorable.
Cased ==
    Range(UpperCase) \cup Range(LowerCase) \cup NonAsciiUpper \cup NonAsciiLowerCase
CaseIgnorable == {"'", ".", ":", "^", "U+0060"} \cup Marks

\* str.lower() of the one-character text c, for c in Chars.
lower_char(c) ==
    CASE c \in Range(UpperCase) ->
             <<LowerCase[CHOOSE i \in Letters : UpperCase[i] = c]>>
      [] c \in NonAsciiUpper -> NonAsciiLower(c)
      [] c \in Chars \ (Range(UpperCase) \cup NonAsciiUpper) -> <<c>>

\* The capital sigma at position i of s stands in the Final_Sigma context:
\* the nearest character before it that is not case-ignorable is cased,
\* and the nearest such character after it, if any, is not cased.
final_sigma(s, i) ==
    LET before == {j \in 1..(i - 1) : s[j] \notin CaseIgnorable}
        after == {j \in (i + 1)..Len(s) : s[j] \notin CaseIgnorable}
    IN  /\ before # {}
        /\ s[CHOOSE j \in before : \A k \in before : k <= j] \in Cased
        /\ \/ after = {}
           \/ s[CHOOSE j \in after : \A k \in after : j <= k] \notin Cased

\* str.lower() of s from position i on: each character by lower_char,
\* but a capital sigma in the Final_Sigma context gives final sigma.
RECURSIVE lower_from(_, _)
lower_from(s, i) ==
    IF i > Len(s) THEN <<>>
    ELSE (IF s[i] = "U+03A3" /\ final_sigma(s, i)
          THEN <<"U+03C2">> ELSE lower_char(s[i])) \o lower_from(s, i + 1)

lower_identity(s) == s

\* str.lower()
lower(s) == lower_from(s, 1)

RECURSIVE lstrip(_)
lstrip(s) ==
    IF s # <<>> /\ Head(s) \in Whitespace THEN lstrip(Tail(s)) ELSE s

RECURSIVE rstrip(_)
rstrip(s) ==
    IF s # <<>> /\ s[Len(s)] \in Whitespace
    THEN rstrip(SubSeq(s, 1, Len(s) - 1)) ELSE s

\* str.strip()
strip(s) == rstrip(lstrip(s))

\* k in user: k is a substring of user.
In(k, user) ==
    \E i \in 0..(Len(user) - Len(k)) : SubSeq(user, i + 1, i + Len(k)) = k

\* any(k in user for k in keys)
any(user, keys) == \E j \in 1..Len(keys) : In(keys[j], user)

HoursKeys ==
    << <<"t", "i", "m", "e">>,
       <<"t", "i", "m", "i", "n", "g">>,
       <<"o", "p", "e", "n">>,
       <<"c", "l", "o", "s", "i", "n", "g">>,
       <<"h", "o", "u", "r", "s">> >>

AddressKeys ==
    << <<"a", "d", "d", "r", "e", "s", "s">>,
       <<"l", "o", "c", "a", "t", "i", "o", "n">>,
       <<"w", "h", "e", "r", "e">>,
       <<"m", "a", "p">>,
       <<"r", "e", "a", "c", "h">> >>

DeliveryKeys ==
    << <<"d", "e", "l", "i", "v", "e", "r">>,
       <<"d", "e", "l", "i", "v", "e", "r", "y">>,
       <<"s", "a", "m", "e", " ", "d", "a", "y">>,
       <<"h", "o", "m", "e", " ", "d", "e", "l", "i", "v", "e", "r", "y">> >>

PriceKeys ==
    << <<"p", "r", "i", "c", "e">>,
       <<"c", "o", "s", "t">>,
       <<"r", "a", "t", "e">>,
       <<"c", "h", "a", "r", "g", "e", "s">> >>

ProductKeys_flooring ==
    << <<"m", "a", "t", "t", "r", "e", "s", "s">>,
       <<"c", "u", "r", "t", "a", "i", "n">>,
       <<"s", "o", "f", "a">>,
       <<"w", "a", "l", "l", "p", "a", "p", "e", "r">>,
       <<"c", "a", "r", "p", "e", "t">>,
       <<"b", "l", "i", "n", "d", "s">>,
       <<"p", "i", "l", "l", "o", "w">>,
       <<"c", "u", "s", "h", "i", "o", "n">>,
       <<"f", "l", "o", "o", "r", "i", "n", "g">>,
       <<"r", "u", "g">> >>

ProductKeys ==
    << <<"m", "a", "t", "t", "r", "e", "s", "s">>,
       <<"c", "u", "r", "t", "a", "i", "n">>,
       <<"s", "o", "f", "a">>,
       <<"w", "a", "l", "l", "p", "a", "p", "e", "r">>,
       <<"c", "a", "r", "p", "e", "t">>,
       <<"b", "l", "i", "n", "d", "s">>,
       <<"p", "i", "l", "l", "o", "w">>,
       <<"c", "u", "s", "h", "i", "o", "n">>,
       <<"g", "r", "a", "s", "s">>,
       <<"f", "l", "o", "o", "r">>,
       <<"r", "u", "g">> >>

ContactKeys ==
    << <<"c", "o", "n", "t", "a", "c", "t">>,
       <<"p", "h", "o", "n", "e">>,
       <<"c", "a", "l", "l">>,
       <<"w", "h", "a", "t", "s", "a", "p", "p">> >>

SocialKeys ==
    << <<"i", "n", "s", "t", "a", "g", "r", "a", "m">>,
       <<"p", "h", "o", "t", "o">>,
       <<"g", "a", "l", "l", "e", "r", "y">> >>

GreetingKeys ==
    << <<"h", "e", "l", "l", "o">>,
       <<"h", "i">>,
       <<"h", "e", "y">> >>


\* The replies (typographic apostrophes and dashes of the source written
\* in ASCII).
HoursReply == "We are open every day from 10:00 AM to 10:00 PM. Same-day delivery is available."
AddressReply == "Shop No. 8-9, Panch Bhagini Sadan, BP Road, Opp. Vijay Punjab Hotel, Bhayandar East, Thane, Mira Bhayandar, Maharashtra 401105. Search 'Jain Foam & Furnishing' on Google Maps for directions."
DeliveryReply == "Yes, we offer same-day delivery across Bhayandar, Mira Road, and Dahisar."
PriceReply == "Prices vary by product and customization. Share what you need (mattress size, curtain fabric, sofa design) and we'll give you the best quote."
ProductReply == "We stock premium mattresses, curtains, wallpapers, carpets, PVC flooring, window blinds, sofa making & repair, pillows, cushions and more. Tell me what you're looking for."
ContactReply == "You can call us at 083690 51217 or email raiv5253@gmail.com. We're happy to help!"
SocialReply == "Check our latest updates and photos on Instagram: @jain_foam - https://www.instagram.com/jain_foam?igsh=bDZhanJrNHJ0NXdv"
GreetingReply == "Hi! I'm your assistant for Jain Foam & Furnishing. Ask me about products, timings, delivery, or pricing."
DefaultReply == "I didn't catch that. Ask me about products, prices, timings, delivery, or our location."

\* user = req.message.lower().strip()
normalize(message) == strip(lower(message))

resolve_greeting_first(user) ==
    IF any(user, GreetingKeys) THEN GreetingReply
    ELSE IF any(user, HoursKeys) THEN HoursReply
    ELSE IF any(user, AddressKeys) THEN AddressReply
    ELSE IF any(user, DeliveryKeys) THEN DeliveryReply
    ELSE IF any(user, PriceKeys) THEN PriceReply
    ELSE IF any(user, ProductKeys) THEN ProductReply
    ELSE IF any(user, ContactKeys) THEN ContactReply
    ELSE IF any(user, SocialKeys) THEN SocialReply
    ELSE DefaultReply

\* The chain of if-statements over the normalized text.
resolve(user) ==
    IF any(user, HoursKeys) THEN HoursReply
    ELSE IF any(user, AddressKeys) THEN AddressReply
    ELSE IF any(user, DeliveryKeys) THEN DeliveryReply
    ELSE IF any(user, PriceKeys) THEN PriceReply
    ELSE IF any(user, ProductKeys) THEN ProductReply
    ELSE IF any(user, ContactKeys) THEN ContactReply
    ELSE IF any(user, SocialKeys) THEN SocialReply
    ELSE IF any(user, GreetingKeys) THEN GreetingReply
    ELSE DefaultReply

chatbot(message) == resolve(normalize(message))

----------------------------------------------------------------------------
(* SpecChat: one request to POST /api/chatbot, the message drawn from the  *)
(* concatenations of at most MaxFrags fragments.                           *)

MaxFrags == 2

Keywords ==
    Range(HoursKeys) \cup Range(AddressKeys) \cup Range(DeliveryKeys)
    \cup Range(PriceKeys) \cup Range(ProductKeys) \cup Range(ContactKeys)
    \cup Range(SocialKeys) \cup Range(GreetingKeys)

\* Words that are no keyword, parts of keywords, separators, whitespace and
\* upper-case spellings.
OtherFragments ==
    { <<"a", "s", "d", "k", "j", "a", "s", "d">>,
      <<"f", "l", "o", "o", "r", "i", "n", "g">>,
      <<"g", "r", "a", "s">>,
      <<"s">>,
      <<"d">>,
      <<"s", "a", "m", "e", " ">>,
      <<"d", "a", "y">>,
      <<" ">>,
      <<"\t">>,
      <<",", " ">>,
      <<"?">>,
      <<"!">>,
      <<"H", "E", "L", "L", "O">>,
      <<"H", "i">>,
      <<"S", "O", "F", "A">>,
      <<"T", "i", "m", "e">>,
      <<"H", "U+0130">>,
      <<"h", "U+0131">>,
      <<"\f">>,
      <<"U+00A0">>,
      <<"U+00C4">>,
      <<"U+0391", "U+03A3">>,
      <<".">> }

Fragments == Keywords \cup OtherFragments

RECURSIVE TextsUpTo(_)
TextsUpTo(n) ==
    IF n = 0 THEN {<<>>}
    ELSE LET shorter == TextsUpTo(n - 1)
         IN  shorter \cup {p \o f : p \in shorter, f \in Fragments}

ContactIdle ==
    /\ submission = CHOOSE s \in Submissions : TRUE
    /\ db = "unread"
    /\ environ = Unread
    /\ smtp = "unread"
    /\ req = NewRequest
    /\ runs = [d \in DbStates |-> NewRequest]

NotAsked == ""

InitChat ==
    /\ ContactIdle
    /\ text \in TextsUpTo(MaxFrags)
    /\ variant = text /\ edits = 0 /\ foreign = FALSE
    /\ reply = NotAsked /\ replyVariant = NotAsked

Ask ==
    /\ reply = NotAsked
    /\ reply' = chatbot(text)
    /\ UNCHANGED <<text, variant, edits, foreign, replyVariant, contactVars>>

NextChat == Ask

SpecChat == InitChat /\ [][NextChat]_vars

\* The rules in the canonical order: hours, address, delivery, price,
\* product category, contact method, social media, greeting.
CanonicalOrder ==
    << [keys |-> HoursKeys, reply |-> HoursReply],
       [keys |-> AddressKeys, reply |-> AddressReply],
       [keys |-> DeliveryKeys, reply |-> DeliveryReply],
       [keys |-> PriceKeys, reply |-> PriceReply],
       [keys |-> ProductKeys, reply |-> ProductReply],
       [keys |-> ContactKeys, reply |-> ContactReply],
       [keys |-> SocialKeys, reply |-> SocialReply],
       [keys |-> GreetingKeys, reply |-> GreetingReply] >>

Matching(user) ==
    {i \in 1..Len(CanonicalOrder) :
        \E k \in Range(CanonicalOrder[i].keys) : In(k, user)}

\* C7: the reply is that of the first rule, in the canonical order, with a
\* keyword that is a substring of the normalized text; when several rules
\* match the earliest wins; when none matches the reply is the default.
C7_FirstMatchingRule ==
    reply # NotAsked =>
        LET matching == Matching(normalize(text))
        IN  reply = IF matching = {} THEN DefaultReply
                    ELSE CanonicalOrder[CHOOSE i \in matching :
                                            \A j \in matching : i <= j].reply

C7_Witness ==
    /\ text = <<"h", "i", "h", "o", "u", "r", "s">>
    /\ Matching(normalize(text)) = {1, 8}
    /\ reply = HoursReply

NoEarlierRule(user) == Matching(user) \cap 1..4 = {}

\* C8 as stated: a text matching none of rules 1-4 gets the product reply
\* exactly when it contains one of mattress, curtain, sofa, wallpaper,
\* carpet, blinds, pillow, cushion, flooring, rug.
C8_TenKeywords ==
    (reply # NotAsked /\ NoEarlierRule(normalize(text))) =>
        (reply = ProductReply <=>
            \E k \in { <<"m", "a", "t", "t", "r", "e", "s", "s">>,
                     <<"c", "u", "r", "t", "a", "i", "n">>,
                     <<"s", "o", "f", "a">>,
                     <<"w", "a", "l", "l", "p", "a", "p", "e", "r">>,
                     <<"c", "a", "r", "p", "e", "t">>,
                     <<"b", "l", "i", "n", "d", "s">>,
                     <<"p", "i", "l", "l", "o", "w">>,
                     <<"c", "u", "s", "h", "i", "o", "n">>,
                     <<"f", "l", "o", "o", "r", "i", "n", "g">>,
                     <<"r", "u", "g">> } :
                In(k, normalize(text)))

\* C8 amended: a text matching none of rules 1-4 gets the product reply
\* exactly when it contains one of mattress, curtain, sofa, wallpaper,
\* carpet, blinds, pillow, cushion, grass, floor, rug.
C8_ElevenKeywords ==
    (reply # NotAsked /\ NoEarlierRule(normalize(text))) =>
        (reply = ProductReply <=>
            \E k \in { <<"m", "a", "t", "t", "r", "e", "s", "s">>,
                     <<"c", "u", "r", "t", "a", "i", "n">>,
                     <<"s", "o", "f", "a">>,
                     <<"w", "a", "l", "l", "p", "a", "p", "e", "r">>,
                     <<"c", "a", "r", "p", "e", "t">>,
                     <<"b", "l", "i", "n", "d", "s">>,
                     <<"p", "i", "l", "l", "o", "w">>,
                     <<"c", "u", "s", "h", "i", "o", "n">>,
                     <<"g", "r", "a", "s", "s">>,
                     <<"f", "l", "o", "o", "r">>,
                     <<"r", "u", "g">> } :
                In(k, normalize(text)))

C8_Witness ==
    /\ text = <<"g", "r", "a", "s", "s">>
    /\ NoEarlierRule(normalize(text))
    /\ reply = ProductReply

----------------------------------------------------------------------------
(* SpecCase: a message and a variant of it obtained by at most MaxEdits    *)
(* changes of letter case or of the whitespace at either end; both are     *)
(* sent to POST /api/chatbot.                                              *)

MaxEdits == 3

CaseTexts ==
    { <<"h", "e", "l", "l", "o">>,
      <<"h", "i">>,
      <<"h", "e", "y">>,
      <<"h", "o", "u", "r", "s">>,
      <<"m", "a", "p">>,
      <<"s", "a", "m", "e", " ", "d", "a", "y">>,
      <<"p", "r", "i", "c", "e">>,
      <<"s", "o", "f", "a">>,
      <<"f", "l", "o", "o", "r">>,
      <<"c", "a", "l", "l">>,
      <<"p", "h", "o", "t", "o">>,
      <<"a", "s", "d", "k", "j", "a", "s", "d">>,
      <<"s", "a", "m", "e", " ", " ", "d", "a", "y">>,
      <<"h", ".", "i">>,
      <<"h", "i", ",", " ", "h", "o", "u", "r", "s", "?">>,
      <<"h", "U+0131">>,
      <<"H", "U+0130">>,
      <<"U+017F", "o", "f", "a">>,
      <<"U+212A", "U+00C9">>,
      <<"\f", "h", "i", "U+00A0">>,
      <<"U+0391", "U+03A3">>,
      <<"U+00E4">>,
      <<>> }

\* The whitespace the edits add at the ends.
PadChars == {" ", "\t", "\n", "\f", "U+00A0", "U+2028"}

AsciiLetter(c) == c \in Range(UpperCase) \cup Range(LowerCase)

\* str.upper() of the lower-case letters outside ASCII: dotless i gives
\* "I", long s gives "S", sharp s gives "SS".
NonAsciiUpperCase(c) ==
    CASE c = "U+0131" -> <<"I">>
      [] c = "U+017F" -> <<"S">>
      [] c = "U+00DF" -> <<"S", "S">>
      [] c = "U+00E9" -> <<"U+00C9">>
      [] c = "U+00E4" -> <<"U+00C4">>
      [] c = "U+03B1" -> <<"U+0391">>
      [] c = "U+03C3" -> <<"U+03A3">>
      [] c = "U+03C2" -> <<"U+03A3">>

\* str.upper() of the one-character text c, for c in Chars.
upper_char(c) ==
    CASE c \in Range(LowerCase) ->
             <<UpperCase[CHOOSE i \in Letters : LowerCase[i] = c]>>
      [] c \in NonAsciiLowerCase -> NonAsciiUpperCase(c)
      [] c \in Chars \ (Range(LowerCase) \cup NonAsciiLowerCase) -> <<c>>

\* str.swapcase() of the one-character text c, for c in Chars.
swapcase_char(c) ==
    IF lower_char(c) # <<c>> THEN lower_char(c) ELSE upper_char(c)

\* str.upper()
RECURSIVE upper(_)
upper(s) ==
    IF s = <<>> THEN <<>> ELSE upper_char(Head(s)) \o upper(Tail(s))

InitCase ==
    /\ ContactIdle
    /\ text \in CaseTexts
    /\ variant = text /\ edits = 0 /\ foreign = FALSE
    /\ reply = NotAsked /\ replyVariant = NotAsked

\* The variant becomes v; outside tells whether the edit changed the case
\* of a letter that is no ASCII letter.
Edit(v, outside) ==
    /\ reply = NotAsked
    /\ edits < MaxEdits
    /\ v # variant
    /\ variant' = v
    /\ edits' = edits + 1
    /\ foreign' = (foreign \/ outside)
    /\ UNCHANGED <<text, reply, replyVariant, contactVars>>

SwapCase == \E i \in 1..Len(variant) :
    Edit(SubSeq(variant, 1, i - 1) \o swapcase_char(variant[i])
             \o SubSeq(variant, i + 1, Len(variant)),
         ~AsciiLetter(variant[i]))

UpperAll ==
    Edit(upper(variant),
         \E i \in 1..Len(variant) :
             ~AsciiLetter(variant[i]) /\ upper_char(variant[i]) # <<variant[i]>>)

AddLeading == \E w \in PadChars : Edit(<<w>> \o variant, FALSE)

AddTrailing == \E w \in PadChars : Edit(Append(variant, w), FALSE)

DropLeading ==
    /\ variant # <<>> /\ Head(variant) \in Whitespace
    /\ Edit(Tail(variant), FALSE)

DropTrailing ==
    /\ variant # <<>> /\ variant[Len(variant)] \in Whitespace
    /\ Edit(SubSeq(variant, 1, Len(variant) - 1), FALSE)

AskBoth ==
    /\ reply = NotAsked
    /\ reply' = chatbot(text)
    /\ replyVariant' = chatbot(variant)
    /\ UNCHANGED <<text, variant, edits, foreign, contactVars>>

NextCase ==
    \/ SwapCase \/ UpperAll
    \/ AddLeading \/ AddTrailing \/ DropLeading \/ DropTrailing
    \/ AskBoth

SpecCase == InitCase /\ [][NextCase]_vars

\* The text in lower case, cut to run from its first to its last character
\* that is no whitespace: nothing inside it is removed or changed.
TrimmedLowerCase(t) ==
    LET l == lower_from(t, 1)
        solid == {i \in 1..Len(l) : l[i] \notin Whitespace}
    IN  IF solid = {} THEN <<>>
        ELSE SubSeq(l, CHOOSE i \in solid : \A j \in solid : i <= j,
                       CHOOSE i \in solid : \A j \in solid : i >= j)

\* C9 as stated: a message and any variant of it obtained by changing the
\* case of letters or adding / removing whitespace at the ends get the
\* same reply.
C9_AnyCaseChange ==
    reply # NotAsked => replyVariant = reply

\* C9 amended: a message and any variant of it obtained by changing the
\* case of ASCII letters or adding / removing whitespace at the ends get
\* the same reply; nothing else is normalized (whitespace and punctuation
\* inside the message are kept).
C9_CaseAndPaddingInsensitive ==
    reply # NotAsked =>
        /\ normalize(text) = TrimmedLowerCase(text)
        /\ normalize(variant) = TrimmedLowerCase(variant)
        /\ ~foreign => /\ replyVariant = reply
                       /\ normalize(variant) = normalize(text)

C9_Witness ==
    /\ text = <<"h", "e", "l", "l", "o">>
    /\ variant = <<" ", "H", "E", "L", "L", "O", " ">>
    /\ ~foreign
    /\ reply = GreetingReply /\ replyVariant = GreetingReply

============================================================================
